---- MODULE Spec2Model ----
(***************************************************************************)
(* Task Manager API (backend/app.py): one SQLite table `tasks` behind      *)
(* seven Flask handlers.  Spec runs the handlers one request at a time;    *)
(* ConcSpec runs update_task and get_stats one SQL statement at a time,    *)
(* interleaved with the other handlers' statements.                        *)
(***************************************************************************)
EXTENDS Integers, Sequences, FiniteSets, TLC

(* ------------------------------ bounds -------------------------------- *)
\* task ids the requests may name (and uuid4 may return)
MaxIds == 2
\* last value of CURRENT_TIMESTAMP
MaxClock == 1
\* keys the clients send in request bodies over a run, beyond the titles of
\* create requests
MaxKeys == 2
\* requests the threaded server runs statement by statement, one per thread
MaxThreads == 2

Ids == 1..MaxIds
Threads == 1..MaxThreads

VARIABLES
    tasks,     \* the tasks table: id -> row
    issued,    \* the ids uuid4 has returned
    now,       \* CURRENT_TIMESTAMP
    nkeys,     \* body keys sent so far
    req,       \* the request being served, NoReq between requests
    resp,      \* its response
    before,    \* history: the table when the request arrived
    ever,      \* history: the ids stored at some time before the request
    deleted,   \* history: the ids delete_task has removed
    prev,      \* history: the previous request was a bulk delete
    th         \* ConcSpec: each thread's position in its handler and its locals

vars == <<tasks, issued, now, nkeys, req, resp, before, ever, deleted, prev, th>>

(* --------------------------- JSON / SQL values ------------------------ *)
JsonNull == "<null>"
Fields == {"title", "description", "completed", "priority", "category"}

TitleVals == {JsonNull, "", "a"}
DescriptionVals == {"d"}
CompletedVals == {"true", "false", "2"}
PriorityVals == {"high"}
CategoryVals == {"work"}

FieldVals(f) ==
    CASE f = "title" -> TitleVals
      [] f = "description" -> DescriptionVals
      [] f = "completed" -> CompletedVals
      [] f = "priority" -> PriorityVals
      [] f = "category" -> CategoryVals

\* A JSON object: a function from the keys it names to their values.
Objects(keys) ==
    UNION {{b \in [S -> UNION {FieldVals(f) : f \in S}] :
                \A f \in S : b[f] \in FieldVals(f)} : S \in SUBSET keys}

(* ------------------------- Python / sqlite3 helpers ------------------- *)
\* dict.get(key, default)
Get(data, key, default) == IF key \in DOMAIN data THEN data[key] ELSE default

\* a test for None alone, which lets the empty string through
Falsy_NoneOnly(v) == v = JsonNull

\* Python truthiness of a JSON string or null: `not v`
Falsy(v) == v = JsonNull \/ v = ""

\* `not data` for the value of request.get_json(): None (no body) or {}
NotData(r) == ~r.present \/ DOMAIN r.data = {}

\* sqlite3 binds Python True/False as the integers 1/0 and an int as itself
Adapt(v) == CASE v = "true" -> 1 [] v = "false" -> 0 [] v = "2" -> 2

\* an id made from the row count, which comes back after a delete
Uuid4_RowCount == {Cardinality(DOMAIN tasks) + 1} \cap Ids

\* uuid.uuid4(): an identifier no earlier call returned; the n-th one is named n
Uuid4 == {Cardinality(issued) + 1} \cap Ids

\* data.get('priority') without its default
InsertRow_NoPriorityDefault(id, data, t) ==
    [id |-> id,
     title |-> Get(data, "title", JsonNull),
     description |-> Get(data, "description", ""),
     completed |-> 0,
     priority |-> Get(data, "priority", JsonNull),
     category |-> Get(data, "category", "general"),
     created_at |-> t,
     updated_at |-> t]

\* INSERT INTO tasks (id, title, description, priority, category): the other
\* columns take their DEFAULTs (completed FALSE, both timestamps CURRENT_TIMESTAMP)
InsertRow(id, data, t) ==
    [id |-> id,
     title |-> Get(data, "title", JsonNull),
     description |-> Get(data, "description", ""),
     completed |-> 0,
     priority |-> Get(data, "priority", "medium"),
     category |-> Get(data, "category", "general"),
     created_at |-> t,
     updated_at |-> t]

\* data.get('description', '') in place of the stored description
UpdateRow_DefaultDescription(task, data, t) ==
    [id |-> task.id,
     title |-> Get(data, "title", task.title),
     description |-> Get(data, "description", ""),
     completed |-> IF "completed" \in DOMAIN data THEN Adapt(data["completed"])
                   ELSE task.completed,
     priority |-> Get(data, "priority", task.priority),
     category |-> Get(data, "category", task.category),
     created_at |-> task.created_at,
     updated_at |-> t]

\* UPDATE tasks SET title, description, completed, priority, category,
\* updated_at = CURRENT_TIMESTAMP, from the request and the row read before
UpdateRow(task, data, t) ==
    [id |-> task.id,
     title |-> Get(data, "title", task.title),
     description |-> Get(data, "description", task.description),
     completed |-> IF "completed" \in DOMAIN data THEN Adapt(data["completed"])
                   ELSE task.completed,
     priority |-> Get(data, "priority", task.priority),
     category |-> Get(data, "category", task.category),
     created_at |-> task.created_at,
     updated_at |-> t]

\* WHERE completed = TRUE / WHERE completed = ? with True
IsCompleted(row) == row.completed = 1
\* WHERE completed = ? with False
IsPending(row) == row.completed = 0

Rows(t) == {t[i] : i \in DOMAIN t}

Put(t, id, row) == [i \in DOMAIN t \cup {id} |-> IF i = id THEN row ELSE t[i]]
Remove(t, gone) == [i \in DOMAIN t \ gone |-> t[i]]

\* WHERE completed, which takes every non-zero value for true
BulkGone_Truthy(t) == {i \in DOMAIN t : t[i].completed # 0}

\* DELETE FROM tasks WHERE completed = TRUE
BulkGone(t) == {i \in DOMAIN t : IsCompleted(t[i])}

\* f"Deleted {deleted_count} completed tasks"
Message(n) == <<"Deleted", n, "completed tasks">>

\* the WHERE clause get_tasks builds from the query string
Matches(row, args) ==
    /\ Get(args, "status", JsonNull) = "completed" => IsCompleted(row)
    /\ Get(args, "status", JsonNull) = "pending" => IsPending(row)
    /\ ~Falsy(Get(args, "category", JsonNull)) => row.category = args["category"]
    /\ ~Falsy(Get(args, "priority", JsonNull)) => row.priority = args["priority"]

\* ORDER BY created_at DESC
Descending(s) == \A i, j \in 1..Len(s) : i < j => s[i].created_at >= s[j].created_at

\* every order SQLite may return the matching rows in
SelectTasks(t, args) ==
    LET hit == {r \in Rows(t) : Matches(r, args)}
        n == Cardinality(hit)
    IN {s \in [1..n -> hit] : {s[k] : k \in 1..n} = hit /\ Descending(s)}

\* SELECT COUNT(*) FROM tasks
CountAll(t) == Cardinality(DOMAIN t)
\* SELECT COUNT(*) FROM tasks WHERE completed = TRUE
CountCompleted(t) == Cardinality({i \in DOMAIN t : IsCompleted(t[i])})
\* SELECT col, COUNT(*) FROM tasks GROUP BY col
GroupBy(t, col) ==
    {[key |-> v, count |-> Cardinality({i \in DOMAIN t : t[i][col] = v})] :
        v \in {t[i][col] : i \in DOMAIN t}}

RECURSIVE SumCounts(_)
SumCounts(groups) ==
    IF groups = {} THEN 0
    ELSE LET g == CHOOSE x \in groups : TRUE
         IN g.count + SumCounts(groups \ {g})

(* ------------------------------ requests ------------------------------ *)
CreateBodies == Objects({"title", "description", "priority", "category"})
UpdateBodies == Objects(Fields)
\* query strings: no filter, one filter, or all three
ListArgs ==
    {a \in UNION {[S -> {"completed", "pending", "all", "high", "work"}] :
                    S \in {{}, {"status"}, {"category"}, {"priority"},
                           {"status", "category", "priority"}}} :
        /\ "status" \in DOMAIN a => a["status"] \in {"completed", "pending", "all"}
        /\ "category" \in DOMAIN a => a["category"] \in CategoryVals
        /\ "priority" \in DOMAIN a => a["priority"] \in PriorityVals}

\* request.get_json() of a request without a body
NoData == << >>

\* no request is being served
NoReq == [op |-> "none"]
NoResp == [status |-> 0]
Idle == req = NoReq

Init ==
    /\ tasks = << >>
    /\ issued = {}
    /\ now = 0
    /\ nkeys = 0
    /\ req = NoReq
    /\ resp = NoResp
    /\ before = << >>
    /\ ever = {}
    /\ deleted = {}
    /\ prev = FALSE
    /\ th = [t \in Threads |-> [pc |-> "idle"]]

\* the server takes up request r, whose body names n more keys
Arrives(r, n) ==
    /\ req' = r
    /\ before' = tasks
    /\ nkeys' = nkeys + n
    /\ nkeys' <= MaxKeys
    /\ UNCHANGED <<now, ever, prev, th>>

\* CURRENT_TIMESTAMP moves on between requests
Tick ==
    /\ Idle
    /\ now < MaxClock
    /\ now' = now + 1
    /\ UNCHANGED <<tasks, issued, nkeys, req, resp, before, ever, deleted, prev, th>>

\* POST /api/tasks
create_task ==
    /\ Idle
    /\ \E present \in BOOLEAN :
       \E data \in (IF present THEN CreateBodies ELSE {NoData}) :
         LET r == [op |-> "create", present |-> present, data |-> data] IN
         /\ Arrives(r, Cardinality(DOMAIN data \ {"title"}))
         /\ UNCHANGED deleted
         /\ IF NotData(r) \/ Falsy(Get(data, "title", JsonNull))
            THEN /\ resp' = [status |-> 400, error |-> "Title is required"]
                 /\ UNCHANGED <<tasks, issued>>
            ELSE \E id \in Uuid4 :
                 /\ tasks' = Put(tasks, id, InsertRow(id, data, now))
                 /\ issued' = issued \cup {id}
                 /\ resp' = [status |-> 201, body |-> tasks'[id]]

\* GET /api/tasks/<task_id>
get_task ==
    /\ Idle
    /\ \E id \in Ids :
         /\ Arrives([op |-> "get", id |-> id], 0)
         /\ resp' = IF id \in DOMAIN tasks
                    THEN [status |-> 200, body |-> tasks[id]]
                    ELSE [status |-> 404, error |-> "Task not found"]
         /\ UNCHANGED <<tasks, issued, deleted>>

\* PUT /api/tasks/<task_id>
update_task ==
    /\ Idle
    /\ \E id \in Ids : \E present \in BOOLEAN :
       \E data \in (IF present THEN UpdateBodies ELSE {NoData}) :
         LET r == [op |-> "update", id |-> id, present |-> present, data |-> data] IN
         /\ Arrives(r, Cardinality(DOMAIN data))
         /\ UNCHANGED <<issued, deleted>>
         /\ IF NotData(r)
            THEN /\ resp' = [status |-> 400, error |-> "No data provided"]
                 /\ UNCHANGED tasks
            ELSE IF id \notin DOMAIN tasks
            THEN /\ resp' = [status |-> 404, error |-> "Task not found"]
                 /\ UNCHANGED tasks
            ELSE IF Get(data, "title", tasks[id].title) = JsonNull
            THEN \* title TEXT NOT NULL: sqlite3.IntegrityError, nothing committed
                 /\ resp' = [status |-> 500, error |-> "Internal server error"]
                 /\ UNCHANGED tasks
            ELSE /\ tasks' = [tasks EXCEPT ![id] = UpdateRow(tasks[id], data, now)]
                 /\ resp' = [status |-> 200, body |-> tasks'[id]]

\* DELETE /api/tasks/<task_id>
delete_task ==
    /\ Idle
    /\ \E id \in Ids :
         /\ Arrives([op |-> "delete", id |-> id], 0)
         /\ UNCHANGED issued
         /\ IF id \notin DOMAIN tasks
            THEN /\ resp' = [status |-> 404, error |-> "Task not found"]
                 /\ UNCHANGED <<tasks, deleted>>
            ELSE /\ tasks' = Remove(tasks, {id})
                 /\ deleted' = deleted \cup {id}
                 /\ resp' = [status |-> 200, message |-> "Task deleted successfully"]

\* DELETE /api/tasks/bulk
delete_completed_tasks ==
    /\ Idle
    /\ Arrives([op |-> "bulk"], 0)
    /\ tasks' = Remove(tasks, BulkGone(tasks))
    /\ resp' = [status |-> 200, message |-> Message(Cardinality(BulkGone(tasks)))]
    /\ UNCHANGED <<issued, deleted>>

\* GET /api/tasks
get_tasks ==
    /\ Idle
    /\ \E args \in ListArgs : \E rows \in SelectTasks(tasks, args) :
         /\ Arrives([op |-> "list", args |-> args], 0)
         /\ resp' = [status |-> 200, body |-> rows]
         /\ UNCHANGED <<tasks, issued, deleted>>

\* GET /api/stats
get_stats ==
    LET total == CountAll(tasks)
        completed == CountCompleted(tasks)
    IN
    /\ Idle
    /\ Arrives([op |-> "stats"], 0)
    /\ resp' = [status |-> 200, total |-> total, completed |-> completed,
                pending |-> total - completed,
                by_priority |-> GroupBy(tasks, "priority"),
                by_category |-> GroupBy(tasks, "category")]
    /\ UNCHANGED <<tasks, issued, deleted>>

\* the response leaves; the server is idle again
Return ==
    /\ ~Idle
    /\ req' = NoReq
    /\ resp' = NoResp
    /\ before' = << >>
    /\ ever' = ever \cup DOMAIN before \cup DOMAIN tasks
    /\ prev' = (req.op = "bulk")
    /\ UNCHANGED <<tasks, issued, now, nkeys, deleted, th>>

Next ==
    \/ Tick
    \/ create_task
    \/ get_task
    \/ update_task
    \/ delete_task
    \/ delete_completed_tasks
    \/ get_tasks
    \/ get_stats
    \/ Return

Spec == Init /\ [][Next]_vars

(* ---------------- ConcSpec: handlers one statement at a time ---------- *)
\* Thread t runs one update_task or get_stats request as the code's separate
\* statements; the writing statements of create_task, delete_task and
\* delete_completed_tasks run between them.
Step(t, local) == th' = [th EXCEPT ![t] = local]
Aside == UNCHANGED <<issued, now, req, resp, before, ever, deleted, prev>>
At(t, pc) == th[t].pc = pc

\* update_task: get_json, `if not data`, then the SELECT that checks the id
update_check(t) ==
    /\ At(t, "idle")
    /\ \E id \in Ids : \E present \in BOOLEAN :
       \E data \in (IF present THEN UpdateBodies ELSE {NoData}) :
         LET r == [op |-> "update", id |-> id, present |-> present, data |-> data] IN
         /\ nkeys' = nkeys + Cardinality(DOMAIN data)
         /\ nkeys' <= MaxKeys
         /\ IF NotData(r)
            THEN Step(t, [pc |-> "done", op |-> "update", id |-> id, data |-> data,
                          status |-> 400])
            ELSE IF id \notin DOMAIN tasks
            THEN Step(t, [pc |-> "done", op |-> "update", id |-> id, data |-> data,
                          status |-> 404])
            ELSE Step(t, [pc |-> "execute", op |-> "update", id |-> id, data |-> data,
                          task |-> tasks[id]])
    /\ UNCHANGED tasks
    /\ Aside

\* update_task: the UPDATE ... WHERE id = ? built from the row read before
update_execute(t) ==
    /\ At(t, "execute")
    /\ LET l == th[t]
           row == UpdateRow(l.task, l.data, now)
       IN IF row.title = JsonNull
          THEN \* title TEXT NOT NULL: sqlite3.IntegrityError
               /\ Step(t, [pc |-> "done", op |-> "update", id |-> l.id,
                           data |-> l.data, status |-> 500])
               /\ UNCHANGED tasks
          ELSE /\ tasks' = IF l.id \in DOMAIN tasks
                           THEN [tasks EXCEPT ![l.id] = row]
                           ELSE tasks
               /\ Step(t, [pc |-> "reread", op |-> "update", id |-> l.id,
                           data |-> l.data])
    /\ UNCHANGED nkeys
    /\ Aside

\* update_task: the SELECT after the commit, and dict(updated_task)
update_reread(t) ==
    /\ At(t, "reread")
    /\ LET l == th[t] IN
       IF l.id \in DOMAIN tasks
       THEN Step(t, [pc |-> "done", op |-> "update", id |-> l.id, data |-> l.data,
                     status |-> 200, body |-> tasks[l.id]])
       ELSE \* fetchone() is None: dict(None) raises TypeError
            Step(t, [pc |-> "done", op |-> "update", id |-> l.id, data |-> l.data,
                     status |-> 500])
    /\ UNCHANGED <<tasks, nkeys>>
    /\ Aside

\* get_stats: SELECT COUNT(*) FROM tasks
stats_total(t) ==
    /\ At(t, "idle")
    /\ Step(t, [pc |-> "completed", op |-> "stats", total |-> CountAll(tasks)])
    /\ UNCHANGED <<tasks, nkeys>>
    /\ Aside

\* get_stats: SELECT COUNT(*) ... WHERE completed = TRUE, and pending
stats_completed(t) ==
    /\ At(t, "completed")
    /\ LET completed == CountCompleted(tasks) IN
       Step(t, [pc |-> "priority", op |-> "stats", total |-> th[t].total,
                completed |-> completed, pending |-> th[t].total - completed])
    /\ UNCHANGED <<tasks, nkeys>>
    /\ Aside

\* get_stats: SELECT priority, COUNT(*) ... GROUP BY priority
stats_priority(t) ==
    /\ At(t, "priority")
    /\ Step(t, [pc |-> "category", op |-> "stats", total |-> th[t].total,
                completed |-> th[t].completed, pending |-> th[t].pending,
                by_priority |-> GroupBy(tasks, "priority")])
    /\ UNCHANGED <<tasks, nkeys>>
    /\ Aside

\* get_stats: SELECT category, COUNT(*) ... GROUP BY category, and the response
stats_category(t) ==
    /\ At(t, "category")
    /\ Step(t, [pc |-> "done", op |-> "stats", status |-> 200,
                total |-> th[t].total, completed |-> th[t].completed,
                pending |-> th[t].pending, by_priority |-> th[t].by_priority,
                by_category |-> GroupBy(tasks, "category")])
    /\ UNCHANGED <<tasks, nkeys>>
    /\ Aside

\* create_task in another thread: its INSERT, for a body with a title
create_insert ==
    /\ \E data \in {d \in CreateBodies : ~Falsy(Get(d, "title", JsonNull))} :
       \E id \in Uuid4 :
         /\ nkeys' = nkeys + Cardinality(DOMAIN data \ {"title"})
         /\ nkeys' <= MaxKeys
         /\ tasks' = Put(tasks, id, InsertRow(id, data, now))
         /\ issued' = issued \cup {id}
    /\ UNCHANGED <<now, req, resp, before, ever, deleted, prev, th>>

\* delete_task in another thread: its DELETE FROM tasks WHERE id = ?
delete_execute ==
    /\ \E id \in DOMAIN tasks : tasks' = Remove(tasks, {id})
    /\ UNCHANGED <<issued, now, nkeys, req, resp, before, ever, deleted, prev, th>>

\* delete_completed_tasks in another thread: its DELETE
bulk_execute ==
    /\ BulkGone(tasks) # {}
    /\ tasks' = Remove(tasks, BulkGone(tasks))
    /\ UNCHANGED <<issued, now, nkeys, req, resp, before, ever, deleted, prev, th>>

\* requests go to the lowest thread that has none yet
Free(t) == \A u \in Threads : u < t => th[u].pc # "idle"

ConcNext ==
    \/ Tick
    \/ create_insert
    \/ delete_execute
    \/ bulk_execute
    \/ \E t \in Threads :
         \/ Free(t) /\ update_check(t)
         \/ update_execute(t)
         \/ update_reread(t)
         \/ Free(t) /\ stats_total(t)
         \/ stats_completed(t)
         \/ stats_priority(t)
         \/ stats_category(t)

ConcSpec == Init /\ [][ConcNext]_vars

(* ======================= properties of Spec ========================== *)
Served(op) == req.op = op
RowSet(rows) == {rows[k] : k \in 1..Len(rows)}
StatusOnly(v) == Served("list") /\ DOMAIN req.args = {"status"} /\ req.args["status"] = v

\* C1: list with status=completed returns exactly the tasks whose completed
\* is true, list with status=pending returns exactly the other stored tasks,
\* and both results are in descending created_at order.
C1_ListPartition ==
    /\ StatusOnly("completed") =>
         /\ RowSet(resp.body) = {r \in Rows(tasks) : r.completed = 1}
         /\ Descending(resp.body)
    /\ StatusOnly("pending") =>
         /\ RowSet(resp.body) = Rows(tasks) \ {r \in Rows(tasks) : r.completed = 1}
         /\ Descending(resp.body)

\* C2: a successful update leaves every field its body does not name as it
\* was (id and created_at included), leaves every other task as it was, and
\* does not move updated_at backwards.
C2_UpdateFrame ==
    (Served("update") /\ resp.status = 200) =>
        /\ DOMAIN tasks = DOMAIN before
        /\ \A i \in DOMAIN before \ {req.id} : tasks[i] = before[i]
        /\ \A f \in Fields \ DOMAIN req.data : tasks[req.id][f] = before[req.id][f]
        /\ tasks[req.id].id = before[req.id].id
        /\ tasks[req.id].created_at = before[req.id].created_at
        /\ tasks[req.id].updated_at >= before[req.id].updated_at
        /\ resp.body = tasks[req.id]

C2_Witness ==
    /\ Served("update") /\ resp.status = 200
    /\ DOMAIN req.data = {"priority"}
    /\ before[req.id].description = "d"
    /\ tasks[req.id].priority # before[req.id].priority
    /\ tasks[req.id].updated_at > before[req.id].updated_at
    /\ Cardinality(DOMAIN tasks) = 2

\* C3: no stored task has an empty title.
C3_TitleNeverEmpty == \A i \in DOMAIN tasks : tasks[i].title # ""

\* C5: create with a non-empty title answers 201 and stores exactly one new
\* task, with the given title, an id no task stored before had, created_at
\* equal to updated_at, and the defaults for the optional fields left out.
C5_Create ==
    (Served("create") /\ req.present /\ ~Falsy(Get(req.data, "title", JsonNull))) =>
        /\ resp.status = 201
        /\ \E id \in DOMAIN tasks :
             /\ DOMAIN tasks = DOMAIN before \cup {id}
             /\ id \notin DOMAIN before /\ id \notin ever
             /\ \A i \in DOMAIN before : tasks[i] = before[i]
             /\ resp.body = tasks[id]
             /\ tasks[id].id = id
             /\ tasks[id].title = req.data["title"]
             /\ tasks[id].created_at = tasks[id].updated_at
             /\ tasks[id].completed = 0
             /\ "description" \notin DOMAIN req.data => tasks[id].description = ""
             /\ "priority" \notin DOMAIN req.data => tasks[id].priority = "medium"
             /\ "category" \notin DOMAIN req.data => tasks[id].category = "general"

C5_Witness ==
    /\ Served("create") /\ resp.status = 201
    /\ DOMAIN req.data = {"title", "category"}
    /\ ever \ DOMAIN before # {}
    /\ now > 0

\* C6: create without a body, without a title, or with the empty title
\* answers 400 and stores nothing.
C6_CreateRejected ==
    (Served("create") /\ (\/ ~req.present
                          \/ "title" \notin DOMAIN req.data
                          \/ req.data["title"] = "")) =>
        /\ resp.status = 400
        /\ tasks = before

C6_Witness ==
    /\ Served("create") /\ resp.status = 400
    /\ req.present /\ "title" \in DOMAIN req.data /\ req.data["title"] = ""
    /\ "priority" \in DOMAIN req.data
    /\ tasks # << >>

\* C7: bulk delete removes the tasks whose completed is true and no others,
\* leaves the rest as they were and reports how many it removed; a second
\* bulk delete right after the first removes nothing and reports 0.
C7_BulkDelete ==
    Served("bulk") =>
        LET gone == {i \in DOMAIN before : before[i].completed = 1} IN
        /\ resp.status = 200
        /\ DOMAIN tasks = DOMAIN before \ gone
        /\ \A i \in DOMAIN tasks : tasks[i] = before[i]
        /\ resp.message = Message(Cardinality(gone))
        /\ prev => (tasks = before /\ resp.message = Message(0))

C7_Witness ==
    /\ Served("bulk") /\ prev
    /\ resp.message = Message(0)
    /\ \E i \in DOMAIN tasks : tasks[i].completed = 2
    /\ ever \ DOMAIN tasks # {}

\* C8: once delete_task has removed an id, every later get of that id answers
\* 404 (the id is never stored again); delete of an id that is not stored
\* answers 404 and changes nothing.
C8_DeletedStaysGone ==
    /\ deleted \cap DOMAIN tasks = {}
    /\ (Served("get") /\ req.id \in deleted) => resp.status = 404
    /\ (Served("delete") /\ req.id \notin DOMAIN before) =>
           (resp.status = 404 /\ tasks = before /\ req.id \notin DOMAIN tasks)

C8_Witness ==
    /\ Served("get") /\ req.id \in deleted /\ resp.status = 404
    /\ Cardinality(issued) = 2
    /\ tasks # << >>

(* ====================== properties of ConcSpec ======================= *)
Done(t, op) == th[t].pc = "done" /\ th[t].op = op

\* C4: every stats response has total = completed + pending, by_priority
\* counts that sum to total and by_category counts that sum to total, whatever
\* writes run between the handler's queries.
C4_StatsAddUp ==
    \A t \in Threads : Done(t, "stats") =>
        /\ th[t].total = th[t].completed + th[t].pending
        /\ SumCounts(th[t].by_priority) = th[t].total
        /\ SumCounts(th[t].by_category) = th[t].total

\* C9: an update request whose task is deleted while it runs still ends in
\* 200, 400 or 404, never in 500 (bodies with a null title, which the NOT NULL
\* column rejects, set aside).
C9_UpdateOutcome ==
    \A t \in Threads :
        (Done(t, "update") /\ Get(th[t].data, "title", "") # JsonNull) =>
            th[t].status \in {200, 400, 404}

\* the value a body's field has once stored
StoredAs(f, v) == IF f = "completed" THEN Adapt(v) ELSE v

\* C10: after two updates of the same task that name disjoint fields have
\* both answered 200, the stored task holds the new value of every field
\* either of them named.
C10_NoLostUpdate ==
    \A t, u \in Threads :
        (/\ t # u
         /\ Done(t, "update") /\ th[t].status = 200
         /\ Done(u, "update") /\ th[u].status = 200
         /\ th[t].id = th[u].id
         /\ DOMAIN th[t].data \cap DOMAIN th[u].data = {}
         /\ th[t].id \in DOMAIN tasks) =>
            \A f \in DOMAIN th[t].data :
                tasks[th[t].id][f] = StoredAs(f, th[t].data[f])
====
